---- MODULE Spec2Model ----
(***************************************************************************)
(* XSpectraParameters of lightshow/parameters/xspectra.py: the resolver    *)
(* instances, the cards object they share, and one write() call at a time  *)
(* taken through its steps: pseudopotential resolution, ground-state deck, *)
(* core-hole injection, absorber index, per-site excited-state deck and    *)
(* per-polarization XANES decks.                                           *)
(*                                                                         *)
(* Python strings that the code builds, compares or sorts are sequences of *)
(* code points, so that concatenation, f-string substitution and sorted()  *)
(* are computed and not assumed.                                           *)
(***************************************************************************)
EXTENDS FiniteSets, Integers, Sequences, TLC

\* ---------------------------------------------------------------- bounds
\* largest number of atomic sites of a structure handed to write()
MaxAtoms == 2
\* largest number of requested sites of one write() call
MaxSites == 2

\* ------------------------------------------------------- string literals
\* "O" and "Ti", the element symbols of the structures explored
O == <<79>>
Ti == <<84, 105>>
Symbols == {O, Ti}
\* "+"
S_plus == <<43>>
\* ".upf"
S_upf == <<46, 117, 112, 102>>
\* ".fch.upf"
S_fch_upf == <<46, 102, 99, 104, 46, 117, 112, 102>>
\* "Core_"
S_Core == <<67, 111, 114, 101, 95>>
\* ".wfc"
S_wfc == <<46, 119, 102, 99>>
\* "{element}", the text a string literal without the f prefix keeps
S_element_literal == <<123, 101, 108, 101, 109, 101, 110, 116, 125>>
\* "GS"
S_GS == <<71, 83>>
\* "gs.in"
S_gs_in == <<103, 115, 46, 105, 110>>
\* "es.in"
S_es_in == <<101, 115, 46, 105, 110>>
\* "xanes.in"
S_xanes_in == <<120, 97, 110, 101, 115, 46, 105, 110>>
\* "weight.txt"
S_weight_txt == <<119, 101, 105, 103, 104, 116, 46, 116, 120, 116>>
\* "dipole"
S_dipole == <<100, 105, 112, 111, 108, 101>>
\* "_"
S_underscore == <<95>>
\* " "
S_space == <<32>>
\* "../"
S_updir == <<46, 46, 47>>
\* "K"
S_K == <<75>>
\* "_ONCV.upf", the suffix of the file names the explored catalogs carry
S_catalog_suffix == <<95, 79, 78, 67, 86, 46, 117, 112, 102>>

\* str(n) for a natural number n
RECURSIVE Str(_)
Str(n) == IF n < 10 THEN <<48 + n>> ELSE Str(n \div 10) \o <<48 + (n % 10)>>

\* f"{site:03}": str(site) left-padded with "0" to width 3
Pad3(site) ==
    LET s == Str(site)
    IN  IF Len(s) >= 3 THEN s
        ELSE IF Len(s) = 2 THEN <<48>> \o s
        ELSE <<48, 48>> \o s

\* Python's < on str: lexicographic by code point
RECURSIVE StrLess(_, _)
StrLess(a, b) ==
    IF b = <<>> THEN FALSE
    ELSE IF a = <<>> THEN TRUE
    ELSE IF Head(a) < Head(b) THEN TRUE
    ELSE IF Head(a) > Head(b) THEN FALSE
    ELSE StrLess(Tail(a), Tail(b))

\* sorted(keys) for a set of distinct strings
RECURSIVE Sorted(_)
Sorted(S) ==
    IF S = {} THEN <<>>
    ELSE LET m == CHOOSE x \in S : \A y \in S \ {x} : StrLess(x, y)
         IN  <<m>> \o Sorted(S \ {m})

\* f"{a} {b} {c}" for a 3-integer mesh
MeshString(k) == Str(k[1]) \o S_space \o Str(k[2]) \o S_space \o Str(k[3])

\* a dict assignment d[key] = value
Put(d, key, value) ==
    [x \in DOMAIN d \cup {key} |-> IF x = key THEN value ELSE d[x]]

\* the empty dict
EmptyDict == [x \in {} |-> {}]

\* ------------------------------------------------- XSPECTRA_DEFAULT_CARDS
\* The entries write() reads or assigns.  conv_thr is counted in units of
\* 1e-10 (defaultConvPerAtom), so the default 1e-08 is 100.  "element",
\* "edge" and "pseudo_dir" are absent from the template: <<>> is absence.
XSPECTRA_DEFAULT_CARDS ==
    [ecutrho |-> 320, ecutwfc |-> 40, conv_thr |-> 100,
     kpts |-> <<50, 32, 50, 32, 50>>, shift |-> <<48, 32, 48, 32, 48>>,
     element |-> <<>>, edge |-> <<>>, pseudo_dir |-> <<>>]

\* ------------------------------------------------------------ instances
\* XSpectraParameters.__init__ with the default cards argument: every
\* instance holds a reference to the one XSPECTRA_DEFAULT_CARDS object.
\* The environment variables are unset, so a directory that is not passed
\* stays None.
NewInstance(chpsp_directory, psp_directory, psp_cutoff_table, psp_json) ==
    [_chpsp_directory |-> chpsp_directory,
     _psp_cutoff_table |-> psp_cutoff_table,
     _psp_json |-> psp_json,
     _psp_directory |-> psp_directory,
     _edge |-> S_K]

\* the attributes __init__ assigns on self
InstanceAttributes ==
    {"_cards", "_chpsp_directory", "_psp_cutoff_table", "_psp_json",
     "_psp_directory", "_kpoints", "_defaultConvPerAtom", "_edge", "_name"}

\* The resolvers explored: 1 built with no argument, 2 with both asset
\* directories, the cutoff table and the packed archive named, 3 with the
\* pseudopotential directory but no cutoff table.
Instances == {1, 2, 3}
InitialInstances ==
    [i \in Instances |->
        IF i = 1 THEN NewInstance("None", "None", "None", "None")
        ELSE IF i = 2 THEN NewInstance("chpsp", "psp", "table.json", "psps.json")
        ELSE NewInstance("None", "psp", "None", "None")]

\* ------------------------------------------------------ the file system
\* the catalog's file name of a symbol
CatalogFilename(s) == s \o S_catalog_suffix

\* Cutoff catalogs (the JSON of psp_cutoff_table): symbol -> entry.
CatalogFull ==
    [s \in Symbols |->
        IF s = O
        THEN [filename |-> CatalogFilename(s), cutoff_wfc |-> 30, cutoff_rho |-> 400]
        ELSE [filename |-> CatalogFilename(s), cutoff_wfc |-> 50, cutoff_rho |-> 240]]
CatalogHigh ==
    [s \in Symbols |->
        IF s = O
        THEN [filename |-> CatalogFilename(s), cutoff_wfc |-> 50, cutoff_rho |-> 240]
        ELSE [filename |-> CatalogFilename(s), cutoff_wfc |-> 30, cutoff_rho |-> 400]]
CatalogPartial ==
    [s \in {O} |->
        [filename |-> CatalogFilename(s), cutoff_wfc |-> 50, cutoff_rho |-> 400]]

\* Contents of the pseudopotential directory: whether the cutoff table is
\* there and what it holds, which asset files are there, and whether the
\* packed archive is there with which entries.
PspDirectories ==
    { [has_table |-> FALSE, table |-> EmptyDict, files |-> {},
       has_json |-> FALSE, json |-> {}],
      [has_table |-> TRUE, table |-> CatalogFull,
       files |-> {CatalogFilename(s) : s \in Symbols},
       has_json |-> TRUE, json |-> {CatalogFilename(s) : s \in Symbols}],
      [has_table |-> TRUE, table |-> CatalogHigh,
       files |-> {CatalogFilename(s) : s \in Symbols},
       has_json |-> FALSE, json |-> {}],
      [has_table |-> TRUE, table |-> CatalogFull,
       files |-> {CatalogFilename(O)},
       has_json |-> FALSE, json |-> {}],
      [has_table |-> TRUE, table |-> CatalogFull,
       files |-> {CatalogFilename(O)},
       has_json |-> TRUE, json |-> {CatalogFilename(O)}],
      [has_table |-> TRUE, table |-> CatalogPartial,
       files |-> {CatalogFilename(s) : s \in Symbols},
       has_json |-> TRUE, json |-> {CatalogFilename(s) : s \in Symbols}] }

NoPspDirectory ==
    [has_table |-> FALSE, table |-> EmptyDict, files |-> {},
     has_json |-> FALSE, json |-> {}]

\* f"{element}.fch.upf" and f"Core_{element}.wfc"
FchName(element) == element \o S_fch_upf
CoreName(element) == S_Core \o element \o S_wfc

\* Contents of the core-hole directory: both files of every symbol, or the
\* potentials without the core wavefunctions, or nothing.
ChpspDirectories ==
    { {FchName(s) : s \in Symbols} \cup {CoreName(s) : s \in Symbols},
      {FchName(s) : s \in Symbols},
      {} }

\* the k-meshes the estimator returns
Meshes == {<<1, 1, 1>>, <<2, 3, 4>>}

\* structures: 1..MaxAtoms sites, each an element symbol
Structures == UNION {[1..n -> Symbols] : n \in 1..MaxAtoms}

\* sequences of distinct items of S, of length 1..n
RECURSIVE DistinctSeqs(_, _)
DistinctSeqs(S, n) ==
    IF n = 0 \/ S = {} THEN {}
    ELSE {<<x>> : x \in S}
         \cup UNION {{<<x>> \o t : t \in DistinctSeqs(S \ {x}, n - 1)} : x \in S}

\* index maps from the site numbers 0..n-1 of the expanded structure to the
\* 0-based indices of the structure: the identity and a rotation
IndexMappings(n) ==
    { [s \in 0..(n - 1) |-> s], [s \in 0..(n - 1) |-> (s + 1) % n] }

\* structure[i] for a 0-based index i
At(st, i) == st[i + 1]

\* Species.symbol: the element symbol of a species label, without a charge
SymbolOf(label) ==
    IF label # <<>> /\ label[Len(label)] = S_plus[1]
    THEN SubSeq(label, 1, Len(label) - 1)
    ELSE label

\* whether a species label is an ionized one
Ionized(label) == label # <<>> /\ label[Len(label)] = S_plus[1]

\* ------------------------------------------------------------- variables
VARIABLES
    inst,             \* instance -> its attributes
    cards,            \* the XSPECTRA_DEFAULT_CARDS object the instances share
    pc,               \* position of the write() call in flight, or "idle"
    self,             \* the instance write() was called on
    exc,              \* the exception that ended the call, or "None"
    warned,           \* the warn() messages of the call
    structure,        \* kwargs["structure_sc"]: the species label of each site
    sites,            \* kwargs["sites"]
    index_mapping,    \* kwargs["index_mapping"]
    species,          \* the element symbol of each requested site
    element,          \* species[0], also symTarg
    primitive_sites,  \* len(structure.get_primitive_structure())
    estimate,         \* what the k-point estimator returns for the structure
    kpoints_scf,
    kpoints_xas,
    ecutwfc,
    ecutrho,
    psp,              \* symbol -> pseudopotential file name
    iabs,             \* 0 while the local is unbound
    site_pos,         \* position of the site loop in sites, from 1
    photonCount,
    files,            \* target_directory: path -> content
    psp_fs,           \* contents of the pseudopotential directory
    chpsp_fs,         \* contents of the core-hole directory
    species_before    \* the species list when the current site was entered

vars ==
    <<inst, cards, pc, self, exc, warned, structure, sites, index_mapping,
      species, element, primitive_sites, estimate, kpoints_scf, kpoints_xas,
      ecutwfc, ecutrho, psp, iabs, site_pos, photonCount, files, psp_fs, chpsp_fs,
      species_before>>

\* the variables of one call, which are gone when it ends
NoCall ==
    /\ self' = 0
    /\ warned' = {}
    /\ structure' = <<>>
    /\ sites' = <<>>
    /\ index_mapping' = <<>>
    /\ species' = <<>>
    /\ element' = <<>>
    /\ primitive_sites' = 0
    /\ estimate' = <<>>
    /\ kpoints_scf' = <<>>
    /\ kpoints_xas' = <<>>
    /\ ecutwfc' = 0
    /\ ecutrho' = 0
    /\ psp' = EmptyDict
    /\ iabs' = 0
    /\ site_pos' = 0
    /\ photonCount' = 0
    /\ files' = EmptyDict
    /\ psp_fs' = NoPspDirectory
    /\ chpsp_fs' = {}
    /\ species_before' = <<>>

Init ==
    /\ inst = InitialInstances
    /\ cards = XSPECTRA_DEFAULT_CARDS
    /\ pc = "idle"
    /\ exc = "None"
    /\ self = 0
    /\ warned = {}
    /\ structure = <<>>
    /\ sites = <<>>
    /\ index_mapping = <<>>
    /\ species = <<>>
    /\ element = <<>>
    /\ primitive_sites = 0
    /\ estimate = <<>>
    /\ kpoints_scf = <<>>
    /\ kpoints_xas = <<>>
    /\ ecutwfc = 0
    /\ ecutrho = 0
    /\ psp = EmptyDict
    /\ iabs = 0
    /\ site_pos = 0
    /\ photonCount = 0
    /\ files = EmptyDict
    /\ psp_fs = NoPspDirectory
    /\ chpsp_fs = {}
    /\ species_before = <<>>

\* KpointsScf with the test of line 384 inverted
KpointsScfInverted(primitive, given, estimated) ==
    IF primitive = given THEN <<1, 1, 1>> ELSE estimated

\* lines 384-388: the mesh of the ground- and excited-state decks, from the
\* site count of the primitive cell, that of the given cell and the
\* estimator's mesh
KpointsScf(primitive, given, estimated) ==
    IF primitive # given THEN <<1, 1, 1>> ELSE estimated

\* StartingCutoffs taken from the template's values instead of the cards
StartingCutoffsFromTemplate(c) ==
    [ecutwfc |-> XSPECTRA_DEFAULT_CARDS.ecutwfc,
     ecutrho |-> XSPECTRA_DEFAULT_CARDS.ecutrho]

\* lines 403-404: the cutoffs a call starts from
StartingCutoffs(c) == [ecutwfc |-> c.ecutwfc, ecutrho |-> c.ecutrho]

\* ------------------------------------------------- write(): lines 368-404
\* The arguments, the absorbing element, the k-meshes, the convergence
\* threshold and the starting cutoffs.  The target directory is created.
WriteStart(i) ==
    /\ pc = "idle"
    /\ \E st \in Structures, k \in Meshes :
       \E map \in IndexMappings(Len(st)), np \in 1..Len(st),
          pd \in (IF inst[i]._psp_directory = "None"
                  THEN {NoPspDirectory} ELSE PspDirectories),
          cd \in (IF inst[i]._chpsp_directory = "None"
                  THEN {{}} ELSE ChpspDirectories) :
       \E ss \in DistinctSeqs(DOMAIN map, MaxSites) :
          LET sp == [j \in 1..Len(ss) |-> SymbolOf(At(st, map[ss[j]]))]
          IN  /\ self' = i
              /\ structure' = st
              /\ sites' = ss
              /\ index_mapping' = map
              /\ primitive_sites' = np
              /\ estimate' = k
              /\ psp_fs' = pd
              /\ chpsp_fs' = cd
              /\ species' = sp
              /\ element' = sp[1]
              /\ kpoints_scf' = KpointsScf(np, Len(st), k)
              /\ kpoints_xas' = k
              /\ cards' = [cards EXCEPT !.element = sp[1],
                                        !.edge = inst[i]._edge,
                                        !.kpts = MeshString(k),
                                        !.conv_thr = Len(st)]
              /\ ecutwfc' = StartingCutoffs(cards).ecutwfc
              /\ ecutrho' = StartingCutoffs(cards).ecutrho
    /\ pc' = "resolve"
    /\ exc' = "None"
    /\ warned' = {}
    /\ files' = EmptyDict
    /\ UNCHANGED <<inst, psp, iabs, site_pos, photonCount, species_before>>

\* ------------------------------------------ pseudopotential resolution
\* Raise with the comparison dropped: the catalog's cutoff always wins
RaiseUnconditional(cutoff, ecut) == cutoff

\* lines 421-424: a cutoff of the catalog replaces the current one when it
\* is larger
Raise(cutoff, ecut) == IF cutoff > ecut THEN cutoff ELSE ecut

\* lines 414-424: the loop of the direct lookup over the symbols, in the
\* order of the sites.  acc carries the locals psp, ecutwfc and ecutrho,
\* the files copied into the target directory and the exception raised.
RECURSIVE DirectLookupLoop(_, _, _)
DirectLookupLoop(symbols, dir, acc) ==
    IF symbols = <<>> THEN acc
    ELSE LET symbol == Head(symbols)
         IN  IF symbol \notin DOMAIN dir.table
             THEN [acc EXCEPT !.exc = "KeyError"]
             ELSE LET psp_filename == dir.table[symbol].filename
                      psp1 == Put(acc.psp, symbol, psp_filename)
                  IN  IF psp_filename \notin dir.files
                      THEN [acc EXCEPT !.psp = psp1, !.exc = "FileNotFoundError"]
                      ELSE DirectLookupLoop(Tail(symbols), dir,
                               [psp |-> psp1,
                                ecutwfc |-> Raise(dir.table[symbol].cutoff_wfc, acc.ecutwfc),
                                ecutrho |-> Raise(dir.table[symbol].cutoff_rho, acc.ecutrho),
                                copied |-> acc.copied \cup {psp_filename},
                                exc |-> "None"])

\* lines 408-424: tier 1.  Path(None) is a TypeError; a cutoff table that
\* is not there is a FileNotFoundError of open().
DirectLookup(me, symbols, dir, acc) ==
    IF me._psp_cutoff_table = "None" THEN [acc EXCEPT !.exc = "TypeError"]
    ELSE IF ~dir.has_table THEN [acc EXCEPT !.exc = "FileNotFoundError"]
    ELSE DirectLookupLoop(symbols, dir, acc)

\* lines 255-260: the cutoffs after the loop over set(symbols), for a
\* catalog whose entries carry "cutoff" and "rho_cutoff"
RECURSIVE UnpackCutoffs(_, _, _)
UnpackCutoffs(minSymbols, table, acc) ==
    IF minSymbols = {} THEN acc
    ELSE LET symbol == CHOOSE x \in minSymbols : TRUE
         IN  UnpackCutoffs(minSymbols \ {symbol}, table,
                 [acc EXCEPT !.psp = Put(acc.psp, symbol, table[symbol].filename),
                             !.ecutwfc = Raise(table[symbol].cutoff, acc.ecutwfc),
                             !.ecutrho = Raise(table[symbol].rho_cutoff, acc.ecutrho)])

\* the name line 251 reads on self
UnpackDirectoryAttribute == "_psp_directoy"

\* _unpackPsps, lines 250-273: tier 2.  Line 251 reads an attribute that
\* __init__ never assigns, which is an AttributeError before any file is
\* opened.  The returned psp, ecutwfc and ecutrho are those of acc when
\* exc is "None"; the caller keeps its own otherwise.
UnpackPsps(me, symbols, dir, acc) ==
    LET minSymbols == {symbols[j] : j \in 1..Len(symbols)}
        fresh == [acc EXCEPT !.psp = EmptyDict]
    IN  IF UnpackDirectoryAttribute \notin InstanceAttributes
        THEN [acc EXCEPT !.exc = "AttributeError"]
        ELSE IF me._psp_cutoff_table = "None" THEN [acc EXCEPT !.exc = "TypeError"]
        ELSE IF ~dir.has_table THEN [acc EXCEPT !.exc = "FileNotFoundError"]
        ELSE IF \E x \in minSymbols : x \notin DOMAIN dir.table
        THEN [acc EXCEPT !.exc = "KeyError"]
        ELSE IF \E x \in minSymbols :
                   {"cutoff", "rho_cutoff"} \ DOMAIN dir.table[x] # {}
        THEN [acc EXCEPT !.exc = "KeyError"]
        ELSE IF me._psp_json = "None" THEN [acc EXCEPT !.exc = "TypeError"]
        ELSE IF ~dir.has_json THEN [acc EXCEPT !.exc = "FileNotFoundError"]
        ELSE IF \E x \in minSymbols : dir.table[x].filename \notin dir.json
        THEN [acc EXCEPT !.exc = "KeyError"]
        ELSE LET r == UnpackCutoffs(minSymbols, dir.table, fresh)
             IN  [r EXCEPT !.copied =
                      acc.copied \cup {dir.table[x].filename : x \in minSymbols}]

\* Placeholders with the extension forgotten
PlaceholdersBare(symbols) ==
    [x \in {symbols[j] : j \in 1..Len(symbols)} |-> x]

\* line 441: the placeholder mapping
Placeholders(symbols) ==
    [x \in {symbols[j] : j \in 1..Len(symbols)} |-> x \o S_upf]

\* lines 406-441: the three tiers.  The result carries the locals after
\* line 441, the files copied, the instance's _psp_directory, the warning
\* and the exception that leaves write(), if any.
ResolvePsps(me, symbols, dir, ecutwfc0, ecutrho0) ==
    LET start == [psp |-> EmptyDict, ecutwfc |-> ecutwfc0, ecutrho |-> ecutrho0,
                  copied |-> {}, exc |-> "None"]
        t1 == IF me._psp_directory # "None"
              THEN DirectLookup(me, symbols, dir, start)
              ELSE start
        t2 == IF t1.exc = "FileNotFoundError"
              THEN UnpackPsps(me, symbols, dir, t1)
              ELSE t1
        fallback == t1.exc = "FileNotFoundError" /\ t2.exc = "FileNotFoundError"
        directory == IF fallback THEN "None" ELSE me._psp_directory
        raised == IF fallback THEN "None" ELSE t2.exc
    IN  [psp |-> IF raised # "None" THEN EmptyDict
                 ELSE IF directory = "None" THEN Placeholders(symbols)
                 ELSE t2.psp,
         ecutwfc |-> t2.ecutwfc,
         ecutrho |-> t2.ecutrho,
         copied |-> t2.copied,
         _psp_directory |-> directory,
         warned |-> IF fallback THEN {"psp files not present"} ELSE {},
         exc |-> raised]

\* a file copied or unpacked into the target directory
Asset == [kind |-> "asset"]

\* the target directory after the files named in names are put at its root
RECURSIVE PutAll(_, _, _)
PutAll(d, names, content) ==
    IF names = {} THEN d
    ELSE LET x == CHOOSE y \in names : TRUE
         IN  PutAll(Put(d, <<x>>, content), names \ {x}, content)

\* ------------------------------------------------- write(): lines 406-445
Resolve ==
    /\ pc = "resolve"
    /\ LET symbols == [j \in 1..Len(structure) |-> SymbolOf(structure[j])]
           r == ResolvePsps(inst[self], symbols, psp_fs, ecutwfc, ecutrho)
       IN  /\ files' = PutAll(files, r.copied, Asset)
           /\ inst' = [inst EXCEPT ![self]._psp_directory = r._psp_directory]
           /\ warned' = warned \cup r.warned
           /\ psp' = r.psp
           /\ ecutwfc' = r.ecutwfc
           /\ ecutrho' = r.ecutrho
           /\ exc' = r.exc
           /\ IF r.exc # "None"
              THEN /\ pc' = "raised"
                   /\ UNCHANGED cards
              ELSE /\ pc' = "gs"
                   /\ cards' = [cards EXCEPT !.ecutwfc = r.ecutwfc,
                                             !.ecutrho = r.ecutrho,
                                             !.pseudo_dir = S_updir]
    /\ UNCHANGED <<self, structure, sites, index_mapping, species, element,
                   primitive_sites, estimate, kpoints_scf, kpoints_xas, iabs,
                   site_pos, photonCount, psp_fs, chpsp_fs, species_before>>

\* ----------------------------------------------------------- the decks
\* PWInput(...).write_file: the deck cites the species of every site as it
\* is when rendered, the pseudopotential of every key and the cards' values
PWInput(st, pseudo, control, system, electrons, kpoints_grid) ==
    [kind |-> "pw", species |-> st, pseudo |-> pseudo, control |-> control,
     system |-> system, electrons |-> electrons, kpoints_grid |-> kpoints_grid]

\* self._cards["QE"]["control"], ["system"] and ["electrons"]
QEControl(c) == [pseudo_dir |-> c.pseudo_dir]
QESystem(c) == [ecutwfc |-> c.ecutwfc, ecutrho |-> c.ecutrho]
QEElectrons(c) == [conv_thr |-> c.conv_thr]

\* _write_xspectra_in, lines 294-343: the lines of the XANES deck that vary
WriteXspectraIn(c, mode, iabs_, dirs, xkvec) ==
    [kind |-> "xanes",
     calculation |-> mode,
     edge |-> c.edge,
     xiabs |-> iabs_,
     xepsilon |-> dirs,
     xkvec |-> IF mode = "quadrupole" THEN xkvec ELSE <<>>,
     filecore |-> S_updir \o S_updir \o S_Core \o c.element \o S_wfc,
     last_line |-> c.kpts \o S_space \o c.shift]

\* f"{site:03}_{specie}"
SiteDir(site, specie) == Pad3(site) \o S_underscore \o specie

\* XanesDir without the count
XanesDirUnnumbered(count) == S_dipole

\* f"{mode}{photonCount}" for mode "dipole"
XanesDir(count) == S_dipole \o Str(count)

\* lines 501-504
photons == << <<1, 0, 0, 1>>, <<0, 1, 0, 1>>, <<0, 0, 1, 1>> >>

\* lines 506-508
RECURSIVE TotalWeight(_)
TotalWeight(ps) == IF ps = <<>> THEN 0 ELSE Head(ps)[4] + TotalWeight(Tail(ps))

\* ------------------------------------------------- write(): lines 447-457
WriteGS ==
    /\ pc = "gs"
    /\ files' = Put(files, <<S_GS, S_gs_in>>,
                    PWInput(structure, psp, QEControl(cards), QESystem(cards),
                            QEElectrons(cards), kpoints_scf))
    /\ pc' = "corehole"
    /\ UNCHANGED <<inst, cards, self, exc, warned, structure, sites,
                   index_mapping, species, element, primitive_sites, estimate,
                   kpoints_scf, kpoints_xas, ecutwfc, ecutrho, psp, iabs,
                   site_pos, photonCount, psp_fs, chpsp_fs, species_before>>

\* lines 461-475: what the two copies leave in the target directory, and
\* whether a source was missing.  The destination names are plain string
\* literals, so their braces are not substituted.
CoreHoleCopies(me, elem, dir) ==
    IF me._chpsp_directory = "None" THEN [copied |-> {}, missing |-> FALSE]
    ELSE IF FchName(elem) \notin dir THEN [copied |-> {}, missing |-> TRUE]
    ELSE IF CoreName(elem) \notin dir
    THEN [copied |-> {S_element_literal \o S_fch_upf}, missing |-> TRUE]
    ELSE [copied |-> {S_element_literal \o S_fch_upf,
                      S_Core \o S_element_literal \o S_wfc},
          missing |-> FALSE]

\* AbsorberIndex with the 0-based position of enumerate() taken as it is
RECURSIVE AbsorberIndexZeroBased(_, _, _, _)
AbsorberIndexZeroBased(keys, symTarg, i, iabs_) ==
    IF keys = <<>> THEN iabs_
    ELSE AbsorberIndexZeroBased(Tail(keys), symTarg, i + 1,
                                IF Head(keys) = symTarg \o S_plus THEN i ELSE iabs_)

\* AbsorberIndex comparing with the text "{element}+" that a literal
\* without the f prefix keeps, which is no key of the mapping
RECURSIVE AbsorberIndexLiteralKey(_, _, _, _)
AbsorberIndexLiteralKey(keys, symTarg, i, iabs_) ==
    IF keys = <<>> THEN iabs_
    ELSE AbsorberIndexLiteralKey(Tail(keys), symTarg, i + 1,
             IF Head(keys) = S_element_literal \o S_plus THEN i + 1 ELSE iabs_)

\* lines 478-480: the loop over enumerate(sorted(psp.keys())), from the
\* 0-based position i, with the local iabs as it is so far
RECURSIVE AbsorberIndex(_, _, _, _)
AbsorberIndex(keys, symTarg, i, iabs_) ==
    IF keys = <<>> THEN iabs_
    ELSE AbsorberIndex(Tail(keys), symTarg, i + 1,
                       IF Head(keys) = symTarg \o S_plus THEN i + 1 ELSE iabs_)

\* ------------------------------------------------- write(): lines 459-480
CoreHole ==
    /\ pc = "corehole"
    /\ LET psp1 == Put(psp, element \o S_plus, FchName(element))
           c == CoreHoleCopies(inst[self], element, chpsp_fs)
       IN  /\ psp' = psp1
           /\ files' = PutAll(files, c.copied, Asset)
           /\ warned' = IF c.missing
                        THEN warned \cup {"core-hole files not found"}
                        ELSE warned
           /\ iabs' = AbsorberIndex(Sorted(DOMAIN psp1), element, 0, iabs)
    /\ site_pos' = 1
    /\ pc' = "site"
    /\ UNCHANGED <<inst, cards, self, exc, structure, sites, index_mapping,
                   species, element, primitive_sites, estimate, kpoints_scf,
                   kpoints_xas, ecutwfc, ecutrho, photonCount, psp_fs,
                   chpsp_fs, species_before>>

\* the structure with the species of the 0-based site i set to label
SetSite(st, i, label) == [st EXCEPT ![i + 1] = label]

\* ------------------------------------------------- write(): lines 481-485
\* The site's directory is made and the absorbing atom is relabelled.
SiteEnter ==
    /\ pc = "site"
    /\ species_before' = structure
    /\ structure' = SetSite(structure, index_mapping[sites[site_pos]],
                            element \o S_plus)
    /\ pc' = "es"
    /\ UNCHANGED <<inst, cards, self, exc, warned, sites, index_mapping,
                   species, element, primitive_sites, estimate, kpoints_scf,
                   kpoints_xas, ecutwfc, ecutrho, psp, iabs, site_pos,
                   photonCount, files, psp_fs, chpsp_fs>>

\* ------------------------------------------------- write(): lines 486-495
WriteES ==
    /\ pc = "es"
    /\ cards' = [cards EXCEPT !.pseudo_dir = S_updir]
    /\ files' = Put(files,
                    <<SiteDir(sites[site_pos], species[site_pos]), S_es_in>>,
                    PWInput(structure, psp, QEControl(cards'), QESystem(cards'),
                            QEElectrons(cards'), kpoints_scf))
    /\ pc' = "restore"
    /\ UNCHANGED <<inst, self, exc, warned, structure, sites, index_mapping,
                   species, element, primitive_sites, estimate, kpoints_scf,
                   kpoints_xas, ecutwfc, ecutrho, psp, iabs, site_pos,
                   photonCount, psp_fs, chpsp_fs, species_before>>

\* line 496: the label written back on the site
RestoredLabel(elem) == elem

\* ------------------------------------------------- write(): lines 496-510
SiteRestore ==
    /\ pc = "restore"
    /\ structure' = SetSite(structure, index_mapping[sites[site_pos]],
                            RestoredLabel(element))
    /\ photonCount' = 0
    /\ pc' = "xanes"
    /\ UNCHANGED <<inst, cards, self, exc, warned, sites, index_mapping,
                   species, element, primitive_sites, estimate, kpoints_scf,
                   kpoints_xas, ecutwfc, ecutrho, psp, iabs, site_pos, files,
                   psp_fs, chpsp_fs, species_before>>

\* ------------------------------------------------- write(): lines 511-531
\* One polarization: its directory, xanes.in and weight.txt.  The weight is
\* kept as the pair of the declared weight and the total.  Reading iabs
\* while it is unbound is an UnboundLocalError.
WriteXanes ==
    /\ pc = "xanes"
    /\ LET count == photonCount + 1
           photon == photons[count]
           dir1 == SubSeq(photon, 1, 3)
           dir2 == dir1
           weight == <<photon[4], TotalWeight(photons)>>
           folder == <<SiteDir(sites[site_pos], species[site_pos]), XanesDir(count)>>
       IN  /\ photonCount' = count
           /\ IF iabs = 0
              THEN /\ exc' = "UnboundLocalError"
                   /\ pc' = "raised"
                   /\ UNCHANGED <<files, site_pos>>
              ELSE /\ exc' = exc
                   /\ files' = Put(Put(files, folder \o <<S_xanes_in>>,
                                       WriteXspectraIn(cards, "dipole", iabs, dir1, dir2)),
                                   folder \o <<S_weight_txt>>,
                                   [kind |-> "weight", weight |-> weight])
                   /\ IF count < Len(photons)
                      THEN /\ pc' = "xanes"
                           /\ site_pos' = site_pos
                      ELSE /\ site_pos' = site_pos + 1
                           /\ pc' = IF site_pos < Len(sites) THEN "site" ELSE "return"
    /\ UNCHANGED <<inst, cards, self, warned, structure, sites, index_mapping,
                   species, element, primitive_sites, estimate, kpoints_scf,
                   kpoints_xas, ecutwfc, ecutrho, psp, iabs, psp_fs, chpsp_fs,
                   species_before>>

\* ------------------------------------------------------ write(): line 533
\* {"pass": True, "errors": dict()} goes to the caller.
WriteReturn ==
    /\ pc = "return"
    /\ pc' = "idle"
    /\ NoCall
    /\ UNCHANGED <<inst, cards, exc>>

\* An exception leaves write(): what the call has done so far stays done.
Propagate ==
    /\ pc = "raised"
    /\ pc' = "idle"
    /\ exc' = "None"
    /\ NoCall
    /\ UNCHANGED <<inst, cards>>

Next ==
    \/ \E i \in Instances : WriteStart(i)
    \/ Resolve
    \/ WriteGS
    \/ CoreHole
    \/ SiteEnter
    \/ WriteES
    \/ SiteRestore
    \/ WriteXanes
    \/ WriteReturn
    \/ Propagate

Spec == Init /\ [][Next]_vars

\* ================================================================ claims
\* the distinct element symbols of the structure of the call in flight
SymbolSet == {SymbolOf(structure[j]) : j \in 1..Len(structure)}

\* the largest member of a non-empty set of numbers
SetMax(T) == CHOOSE m \in T : \A x \in T : x <= m

\* the positions of write() at which the current site has been processed
SiteProcessed == pc \in {"xanes", "site", "return"} /\ species_before # <<>>

\* C1: after a requested site has been processed, the structure's full
\* species list is the list it was before that site was processed, for any
\* list of requested sites, also one whose sites carry different elements.
C1_SpeciesRevertedAfterEachSite ==
    SiteProcessed => structure = species_before

\* the direct lookup succeeds: the directory and the table are configured,
\* the catalog is there and covers the structure's symbols, and every asset
\* file it names is there
DirectLookupSucceeds ==
    /\ pc = "resolve"
    /\ inst[self]._psp_directory # "None"
    /\ inst[self]._psp_cutoff_table # "None"
    /\ psp_fs.has_table
    /\ SymbolSet \subseteq DOMAIN psp_fs.table
    /\ \A x \in SymbolSet : psp_fs.table[x].filename \in psp_fs.files

\* C2: when the direct lookup succeeds, the ecutwfc stored in the cards is
\* the larger of the ecutwfc stored before the call and the largest
\* cutoff_wfc of the catalog over the structure's symbols, and ecutrho is
\* the same with cutoff_rho; no later step of the call changes either.
C2_CutoffsAreMaxOfCardsAndCatalog ==
    [][ /\ DirectLookupSucceeds =>
            /\ pc' = "gs"
            /\ cards'.ecutwfc =
                   SetMax({cards.ecutwfc} \cup
                          {psp_fs.table[x].cutoff_wfc : x \in SymbolSet})
            /\ cards'.ecutrho =
                   SetMax({cards.ecutrho} \cup
                          {psp_fs.table[x].cutoff_rho : x \in SymbolSet})
        /\ pc # "resolve" =>
            /\ cards'.ecutwfc = cards.ecutwfc
            /\ cards'.ecutrho = cards.ecutrho ]_vars

\* C2 witness: a direct lookup over {"O", "Ti"} has raised ecutwfc from 40
\* to Ti's 50 and ecutrho from 320 to O's 400.
C2_Witness ==
    /\ pc = "gs"
    /\ inst[self]._psp_directory # "None"
    /\ SymbolSet = {O, Ti}
    /\ psp_fs.table = CatalogFull
    /\ DOMAIN files = {<<CatalogFilename(O)>>, <<CatalogFilename(Ti)>>}
    /\ cards.ecutwfc = 50
    /\ cards.ecutrho = 400

\* the direct lookup ends on a file that is not there: the cutoff table, or
\* the asset file of a symbol the catalog covers
DirectLookupMisses ==
    /\ pc = "resolve"
    /\ inst[self]._psp_directory # "None"
    /\ inst[self]._psp_cutoff_table # "None"
    /\ \/ ~psp_fs.has_table
       \/ /\ SymbolSet \subseteq DOMAIN psp_fs.table
          /\ \E x \in SymbolSet : psp_fs.table[x].filename \notin psp_fs.files

\* the packed archive, or an entry it needs, is not there
ArchiveMisses ==
    \/ ~psp_fs.has_table
    \/ ~psp_fs.has_json
    \/ \E x \in SymbolSet \cap DOMAIN psp_fs.table :
           psp_fs.table[x].filename \notin psp_fs.json

\* "{symbol}.upf" for every symbol of the structure
PlaceholderMapping == [x \in SymbolSet |-> x \o <<46, 117, 112, 102>>]

\* C3: with a pseudopotential directory configured, when the direct lookup
\* hits an absent catalog or asset file and the archive or a needed entry is
\* missing too, the call does not abort: every symbol maps to
\* "{symbol}.upf", a warning is emitted, the instance's directory becomes
\* None and the call goes on to the ground-state deck.
C3_MissingAssetsFallBackToPlaceholders ==
    [][ (DirectLookupMisses /\ ArchiveMisses) =>
            /\ pc' = "gs"
            /\ exc' = "None"
            /\ psp' = PlaceholderMapping
            /\ warned' # {}
            /\ inst'[self]._psp_directory = "None" ]_vars

\* C4: with no pseudopotential directory configured when the call starts,
\* every symbol of the structure resolves to "{symbol}.upf", the resolver
\* puts no file into the target directory and the cards keep the cutoffs
\* they had before the call.
C4_NoDirectoryGivesPlaceholders ==
    [][ (pc = "resolve" /\ inst[self]._psp_directory = "None") =>
            /\ pc' = "gs"
            /\ psp' = PlaceholderMapping
            /\ files' = files
            /\ cards'.ecutwfc = cards.ecutwfc
            /\ cards'.ecutrho = cards.ecutrho ]_vars

\* C4 witness: the instance without a directory has resolved {"O", "Ti"} to
\* "O.upf" and "Ti.upf" into a target directory that is still empty, and
\* the cards keep an ecutwfc of 50 that an earlier call stored.
C4_Witness ==
    /\ pc = "gs"
    /\ inst[self]._psp_directory = "None"
    /\ DOMAIN psp = {O, Ti}
    /\ psp[O] = <<79, 46, 117, 112, 102>>
    /\ psp[Ti] = <<84, 105, 46, 117, 112, 102>>
    /\ DOMAIN files = {}
    /\ cards.ecutwfc = 50

\* a comes before b in lexicographic order by code point
LexBefore(a, b) ==
    \E i \in 1..(Len(a) + 1) :
        /\ i <= Len(b)
        /\ \A j \in 1..(i - 1) : a[j] = b[j]
        /\ (i = Len(a) + 1 \/ a[i] < b[i])

\* the XANES decks in the target directory
XanesDecks == {p \in DOMAIN files : files[p].kind = "xanes"}

\* C5: the xiabs of every XANES deck is the 1-based position of the key
\* "{element}+" among the lexicographically sorted keys of the mapping,
\* that is one more than the number of keys that come before it; for the
\* keys {"O", "Ti", "Ti+"} and the element "Ti" it is 3.
C5_AbsorberIndexIsRankOfIonizedKey ==
    \A p \in XanesDecks :
        /\ (element \o S_plus) \in DOMAIN psp
        /\ files[p].xiabs =
               1 + Cardinality({x \in DOMAIN psp : LexBefore(x, element \o S_plus)})
        /\ (DOMAIN psp = {O, Ti, Ti \o S_plus} /\ element = Ti)
               => files[p].xiabs = 3

\* C5 witness: a XANES deck rendered for the keys {"O", "Ti", "Ti+"} and
\* the element "Ti" carries xiabs = 3.
C5_Witness ==
    /\ DOMAIN psp = {O, Ti, <<84, 105, 43>>}
    /\ element = Ti
    /\ \E p \in XanesDecks : files[p].xiabs = 3

\* C6: with a core-hole directory configured that holds "{symbol}.fch.upf"
\* and "Core_{symbol}.wfc" of the absorbing element, the target directory
\* holds files of these two names, with the symbol substituted, when the
\* call returns: the names the mapping entry "{symbol}+" and the filecore
\* line of the XANES decks refer to.
C6_CoreHoleFilesCarryElementName ==
    ( /\ pc = "return"
      /\ inst[self]._chpsp_directory # "None"
      /\ (element \o S_fch_upf) \in chpsp_fs
      /\ (S_Core \o element \o S_wfc) \in chpsp_fs )
    => /\ <<psp[element \o S_plus]>> \in DOMAIN files
       /\ psp[element \o S_plus] = element \o S_fch_upf
       /\ <<S_Core \o element \o S_wfc>> \in DOMAIN files
       /\ \A p \in XanesDecks :
              files[p].filecore = S_updir \o S_updir \o S_Core \o element \o S_wfc

\* "NNN_El", the directory of the requested site at position j, written
\* out for a site number below 10
SiteDirectoryName(j) == <<48, 48, 48 + sites[j], 95>> \o species[j]

\* the files a call on an empty target directory is to leave when nothing
\* is copied: GS/gs.in and, per requested site, es.in and dipole1..3 with
\* xanes.in and weight.txt
DeckFiles ==
    {<<S_GS, S_gs_in>>}
    \cup {<<SiteDirectoryName(j), S_es_in>> : j \in 1..Len(sites)}
    \cup {<<SiteDirectoryName(j), S_dipole \o <<48 + c>>, f>> :
              j \in 1..Len(sites), c \in 1..3, f \in {S_xanes_in, S_weight_txt}}

\* C7: with no pseudopotential and no core-hole directory and an empty
\* target directory, a call with one requested site leaves exactly
\* GS/gs.in, <site>_<element>/es.in and dipole{1,2,3}/xanes.in and
\* weight.txt under it (8 files); with n distinct requested sites the
\* per-site files are there once for each site (1 + 7n files).
C7_DefaultCallWritesExactlyTheDecks ==
    ( /\ pc = "return"
      /\ inst[self]._psp_directory = "None"
      /\ inst[self]._chpsp_directory = "None"
      /\ \A a, b \in 1..Len(sites) : a # b => sites[a] # sites[b] )
    => /\ DOMAIN files = DeckFiles
       /\ Cardinality(DOMAIN files) = 1 + 7 * Len(sites)

\* C7 witness: a call on a 2-atom structure with one requested site has
\* reached its return with 8 files in the target directory.
C7_Witness ==
    /\ pc = "return"
    /\ inst[self]._psp_directory = "None"
    /\ inst[self]._chpsp_directory = "None"
    /\ Len(structure) = 2
    /\ Len(sites) = 1
    /\ Cardinality(DOMAIN files) = 8
    /\ <<<<48, 48, 48, 95, 84, 105>>, <<100, 105, 112, 111, 108, 101, 51>>,
         S_weight_txt>> \in DOMAIN files

\* the 1-based position in the species list of the requested site at
\* position j of sites
MappedPosition(j) == index_mapping[sites[j]] + 1

\* the species list a deck in the target directory was rendered from
RenderedSpecies(p) == files[p].species

\* the ground-state deck was rendered while no site carried an ionized label
GroundStateDeckHasNoIonizedLabel ==
    <<S_GS, S_gs_in>> \in DOMAIN files =>
        \A i \in DOMAIN RenderedSpecies(<<S_GS, S_gs_in>>) :
            ~Ionized(RenderedSpecies(<<S_GS, S_gs_in>>)[i])

\* every excited-state deck was rendered while its site's mapped structure
\* index carried "{element}+" and no other site an ionized label
ExcitedStateDeckHasOnlyItsSiteIonized ==
    \A j \in 1..Len(sites) :
        <<SiteDirectoryName(j), S_es_in>> \in DOMAIN files =>
            \A i \in DOMAIN RenderedSpecies(<<SiteDirectoryName(j), S_es_in>>) :
                IF i = MappedPosition(j)
                THEN RenderedSpecies(<<SiteDirectoryName(j), S_es_in>>)[i]
                         = element \o S_plus
                ELSE ~Ionized(RenderedSpecies(<<SiteDirectoryName(j), S_es_in>>)[i])

\* from the restore on, through the site's XANES decks and up to the next
\* site, no site carries an ionized label
NoIonizedLabelAfterRestore ==
    pc \notin {"es", "restore"} => \A i \in DOMAIN structure : ~Ionized(structure[i])

\* while the site's XANES decks are rendered, and until the next site is
\* entered, the site carries the label it had before it was relabelled
LabelRestoredAfterDeck ==
    SiteProcessed =>
        \A j \in 1..Len(sites) :
            ((j = site_pos /\ pc = "xanes") \/ (j = site_pos - 1 /\ pc # "xanes"))
                => structure[MappedPosition(j)] = species_before[MappedPosition(j)]

\* C8: the ground-state deck is rendered while no site carries an ionized
\* label; every excited-state deck is rendered while the current site's
\* mapped structure index, and no other, carries "{element}+"; and the
\* site's label is restored before its XANES decks are rendered and before
\* the next site is processed.
C8_IonizedLabelScopedToExcitedStateDeck ==
    /\ GroundStateDeckHasNoIonizedLabel
    /\ ExcitedStateDeckHasOnlyItsSiteIonized
    /\ NoIonizedLabelAfterRestore
    /\ LabelRestoredAfterDeck

\* the part of C8 that is about where the ionized label is, without the
\* restored label being the site's own
IonizedLabelNeverOutlivesItsDeck ==
    /\ GroundStateDeckHasNoIonizedLabel
    /\ ExcitedStateDeckHasOnlyItsSiteIonized
    /\ NoIonizedLabelAfterRestore

\* "a b c" for a mesh of numbers below 10
MeshLine(k) == <<48 + k[1], 32, 48 + k[2], 32, 48 + k[3]>>

\* the ground-state and excited-state decks in the target directory
PwDecks == {p \in DOMAIN files : files[p].kind = "pw"}

\* C9: the k-mesh of the ground-state deck and of every excited-state deck
\* is (1,1,1) when the primitive cell's site count differs from the given
\* cell's and the estimator's result otherwise; the k-mesh in the cards,
\* which is the final line of every XANES deck followed by the shift, is
\* the estimator's result in both cases.
C9_KMeshSelection ==
    pc \notin {"idle", "raised"} =>
        /\ \A p \in PwDecks :
               files[p].kpoints_grid =
                   IF primitive_sites # Len(structure) THEN <<1, 1, 1>> ELSE estimate
        /\ cards.kpts = MeshLine(estimate)
        /\ \A p \in XanesDecks :
               files[p].last_line = MeshLine(estimate) \o <<32, 48, 32, 48, 32, 48>>

\* C9 witness: a call on a supercell whose estimated mesh is (2,3,4) has
\* rendered the ground-state and an excited-state deck with (1,1,1) and a
\* XANES deck ending in "2 3 4 0 0 0".
C9_Witness ==
    /\ pc = "return"
    /\ primitive_sites # Len(structure)
    /\ estimate = <<2, 3, 4>>
    /\ \A p \in PwDecks : files[p].kpoints_grid = <<1, 1, 1>>
    /\ Cardinality(PwDecks) >= 2
    /\ \E p \in XanesDecks :
           files[p].last_line = <<50, 32, 51, 32, 52, 32, 48, 32, 48, 32, 48>>

\* C10: over any sequence of calls on instances that share the cards, the
\* ecutwfc and ecutrho stored in the cards never decrease, and every call
\* starts from the cutoffs the cards hold.
C10_SharedCutoffsNeverDecrease ==
    [][ /\ cards'.ecutwfc >= cards.ecutwfc
        /\ cards'.ecutrho >= cards.ecutrho
        /\ (pc = "idle" /\ pc' = "resolve") =>
               /\ ecutwfc' = cards.ecutwfc
               /\ ecutrho' = cards.ecutrho ]_vars

\* C10 witness: a direct lookup for a structure of "O" alone, whose catalog
\* entry asks for 30 and 400, has stored an ecutwfc of 50, which only an
\* earlier call for another structure can have raised from the default 40.
C10_Witness ==
    /\ pc = "gs"
    /\ inst[self]._psp_directory # "None"
    /\ SymbolSet = {O}
    /\ psp_fs.table = CatalogFull
    /\ cards.ecutwfc = 50
    /\ cards.ecutrho = 400

\* the 1-based positions of enumerate(sorted(psp.keys())) at which the test
\* of line 479 holds for the first requested site's element, each of which
\* is one assignment of line 480
AbsorberAssignments ==
    {i \in 1..Len(Sorted(DOMAIN psp)) : Sorted(DOMAIN psp)[i] = species[1] \o S_plus}

\* C11: in every call that reaches the absorber-index computation the key
\* "{element}+" of the first requested site's element is in the mapping, so
\* the index is assigned exactly once in that call and before any XANES
\* deck is rendered; no deck is rendered with an unassigned index or with
\* one left from an earlier call, and every XANES deck of the call, for
\* every site, carries that one index.
C11_AbsorberIndexAssignedOnceBeforeDecks ==
    /\ exc # "UnboundLocalError"
    /\ pc \in {"idle", "resolve", "gs", "corehole"} =>
           /\ iabs = 0
           /\ XanesDecks = {}
    /\ pc \in {"site", "es", "restore", "xanes", "return"} =>
           /\ (species[1] \o S_plus) \in DOMAIN psp
           /\ Cardinality(AbsorberAssignments) = 1
           /\ iabs \in AbsorberAssignments
           /\ \A p \in XanesDecks : files[p].xiabs = iabs

\* C11 witness: a call for two sites of different elements has returned
\* with six XANES decks that all carry the index 2 of the key "O+" among
\* "O", "O+", "Ti".
C11_Witness ==
    /\ pc = "return"
    /\ Len(sites) = 2
    /\ species = <<O, Ti>>
    /\ DOMAIN psp = {O, <<79, 43>>, Ti}
    /\ Cardinality(XanesDecks) = 6
    /\ \A p \in XanesDecks : files[p].xiabs = 2

====
